---- MODULE Spec2Model ----
(***************************************************************************)
(* Model of the trip-planning core of the ELD trip log book system:        *)
(* HOSEngine.process_trip (trips/services/hos_engine.py).                  *)
(*                                                                         *)
(* Times and durations are whole minutes (a datetime is the number of      *)
(* minutes since a reference midnight, a duration_hours value is given in  *)
(* minutes); distances are whole miles.  process_trip is modelled one      *)
(* step of its body at a time: pc names the statement about to run and     *)
(* seg_idx the segment the for-loop is at.  DailyLogSlicer.slice_timeline  *)
(* (trips/services/log_slicer.py) and HOSEngine.check_70_hour_cycle are    *)
(* modelled as operators over a timeline; a calendar date is the number of *)
(* whole days since the reference midnight.                                *)
(***************************************************************************)
EXTENDS Integers, Sequences, FiniteSets, TLC

\* ---------------------------------------------------------------------
\* Bounds of the model
\* ---------------------------------------------------------------------

\* Longest route_segments list explored.
MaxSegs == 3

\* Longest hand-built timeline given to slice_timeline and
\* check_70_hour_cycle.
MaxEvents == 3

\* ---------------------------------------------------------------------
\* HOS constants (class attributes of HOSEngine), in minutes and miles
\* ---------------------------------------------------------------------

MinutesPerHour == 60

MAX_DRIVING_HOURS == 11 * MinutesPerHour
MAX_ON_DUTY_HOURS == 14 * MinutesPerHour
REQUIRED_BREAK_HOURS == 10 * MinutesPerHour
BREAK_REQUIRED_AFTER_DRIVING == 8 * MinutesPerHour

\* Variant: the 30 is taken as hours.
BreakDuration_AsHours == 30 * MinutesPerHour

BREAK_DURATION_MINUTES == 30
FUEL_STOP_INTERVAL_MILES == 1000
PICKUP_DURATION_HOURS == 1 * MinutesPerHour

\* Variant: a half-hour dropoff.
DropoffDuration_Half == MinutesPerHour \div 2

DROPOFF_DURATION_HOURS == 1 * MinutesPerHour

MAX_CYCLE_HOURS == 70 * MinutesPerHour

\* timedelta(days=1)
MinutesPerDay == 24 * MinutesPerHour

\* timedelta(hours=0.5): the length of a fuel stop.
FUEL_STOP_DURATION == 30

\* last_break_time = None
NoTime == -1

\* ---------------------------------------------------------------------
\* Inputs of process_trip
\* ---------------------------------------------------------------------

\* A route segment: distance_miles and duration_hours (here in minutes).
Seg(d, h) == [distance_miles |-> d, duration_hours |-> h]

\* The segments a route may be made of: the legs of the repository's test
\* scenarios, short legs, and degenerate legs (distance or duration <= 0).
SegmentPool ==
    { Seg(600, 600), Seg(100, 120), Seg(700, 780), Seg(500, 510),
      Seg(1200, 1200), Seg(450, 480), Seg(0, 120), Seg(100, 0), Seg(-5, -60) }

RECURSIVE SeqsUpTo(_, _)
SeqsUpTo(S, n) ==
    IF n = 0 THEN { <<>> }
    ELSE LET shorter == SeqsUpTo(S, n - 1)
         IN  shorter \cup { Append(s, x) : s \in { t \in shorter : Len(t) = n - 1 }, x \in S }

\* start_time values: midnight, 08:15 and 22:00 of the reference day.
StartTimes == { 0, 8 * 60 + 15, 22 * 60 }

\* current_cycle_hours values (hours already used in the 70-hour cycle).
CycleHours == { 0, 70 * MinutesPerHour }

\* ---------------------------------------------------------------------
\* State
\* ---------------------------------------------------------------------

VARIABLES
    route_segments,            \* argument: the list of segments
    start_time,                \* argument: the trip's start time
    current_cycle_hours,       \* argument: cycle hours already used
    timeline,                  \* local: the events emitted so far
    stops,                     \* local: the stops emitted so far
    current_time,              \* local
    cumulative_driving_hours,  \* local
    cumulative_on_duty_hours,  \* local
    last_break_time,           \* local, NoTime for None
    last_fuel_miles,           \* local
    total_distance,            \* local
    seg_idx,                   \* position of the for-loop in route_segments
    pc,                        \* the statement of process_trip about to run
    daily_logs,                \* the list slice_timeline returned
    cycle_compliant,           \* the value check_70_hour_cycle returned
    mapped_logs,               \* the list map_all_logs returned
    grid_dt,                   \* argument of time_to_index
    grid_index,                \* the value time_to_index returned
    request,                   \* the POST request TripPlanView.post serves
    trip_status,               \* Trip.status of the trip record, "none" before it exists
    response_status            \* the HTTP status of the response, 0 before it is sent

vars == << route_segments, start_time, current_cycle_hours, timeline, stops,
           current_time, cumulative_driving_hours, cumulative_on_duty_hours,
           last_break_time, last_fuel_miles, total_distance, seg_idx, pc,
           daily_logs, cycle_compliant, mapped_logs, grid_dt, grid_index,
           request, trip_status, response_status >>

\* The state of GridMapper's calls.
grid == << mapped_logs, grid_dt, grid_index >>

\* The state of TripPlanView.post.
view == << request, trip_status, response_status >>

\* grid_index before time_to_index has returned.
NoIndex == -1

\* request where no request is being served.
NoRequest == [valid |-> FALSE, parsed |-> FALSE, routed |-> FALSE]

\* What the calls made on a finished timeline return.
results == << daily_logs, cycle_compliant >>

args == << route_segments, start_time, current_cycle_hours >>

\* A timeline event.  miles is the number formatted into the remarks text:
\* the segment's distance for a DRIVING event, the miles since the last
\* fuel stop for a fuel-stop event, 0 where the remarks hold no number.
Event(s, e, st, loc, rem, mi) ==
    [start_time |-> s, end_time |-> e, status |-> st, location |-> loc,
     remarks |-> rem, miles |-> mi]

Stop(ty, t, loc, rem) ==
    [type |-> ty, time |-> t, location |-> loc, remarks |-> rem]

\* The segment the loop is at.
segment == route_segments[seg_idx]

InLoop == seg_idx <= Len(route_segments)

\* ---------------------------------------------------------------------
\* process_trip
\* ---------------------------------------------------------------------

Init ==
    /\ route_segments \in SeqsUpTo(SegmentPool, MaxSegs)
    /\ start_time \in StartTimes
    /\ current_cycle_hours \in CycleHours
    /\ timeline = << >>
    /\ stops = << >>
    /\ current_time = start_time
    /\ cumulative_driving_hours = 0
    /\ cumulative_on_duty_hours = 0
    /\ last_break_time = NoTime
    /\ last_fuel_miles = 0
    /\ total_distance = 0
    /\ seg_idx = 1
    /\ pc = "pickup"
    /\ daily_logs = << >>
    /\ cycle_compliant = FALSE
    /\ mapped_logs = << >>
    /\ grid_dt = 0
    /\ grid_index = NoIndex
    /\ request = NoRequest
    /\ trip_status = "none"
    /\ response_status = 0

\* Add pickup (ON_DUTY), one hour.
Pickup ==
    /\ pc = "pickup"
    /\ LET pickup_end == current_time + PICKUP_DURATION_HOURS
       IN  /\ timeline' = Append(timeline,
                   Event(current_time, pickup_end, "ON_DUTY", "Pickup Location", "Pickup", 0))
           /\ current_time' = pickup_end
    /\ cumulative_on_duty_hours' = cumulative_on_duty_hours + PICKUP_DURATION_HOURS
    /\ pc' = "loop"
    /\ UNCHANGED << args, results, grid, view, stops, cumulative_driving_hours, last_break_time,
                    last_fuel_miles, total_distance, seg_idx >>

\* Variant: the guard forgets the duration.
SegmentSkipped_DistanceOnly(seg) == seg.distance_miles <= 0

\* Variant: the guard joins its two tests with "and".
SegmentSkipped_And(seg) == seg.distance_miles <= 0 /\ seg.duration_hours <= 0

\* if segment_distance <= 0 or segment_duration <= 0: continue
SegmentSkipped(seg) == seg.distance_miles <= 0 \/ seg.duration_hours <= 0

SkipSegment ==
    /\ pc = "loop"
    /\ InLoop
    /\ SegmentSkipped(segment)
    /\ seg_idx' = seg_idx + 1
    /\ UNCHANGED << args, results, grid, view, timeline, stops, current_time, cumulative_driving_hours,
                    cumulative_on_duty_hours, last_break_time, last_fuel_miles,
                    total_distance, pc >>

\* Variant: the miles since the last fuel stop are not subtracted.
NeedsFuelStop_NoMark(total, last_fuel, seg_distance) ==
    total + seg_distance >= FUEL_STOP_INTERVAL_MILES

\* The fuel condition: adding this segment would reach 1000 miles.
NeedsFuelStop(total, last_fuel, seg_distance) ==
    (total - last_fuel) + seg_distance >= FUEL_STOP_INTERVAL_MILES

\* Variant: the mark is taken after the segment's distance is added.
FuelMark_PostSegment(total, seg_distance) == total + seg_distance

\* The value the fuel stop gives last_fuel_miles.
FuelMark(total, seg_distance) == total

\* Variant: the fuel stop is not counted as on-duty time.
OnDutyAfterFuelStop_Uncounted(cod) == cod

\* cumulative_on_duty_hours += 0.5
OnDutyAfterFuelStop(cod) == cod + FUEL_STOP_DURATION

FuelCheck ==
    /\ pc = "loop"
    /\ InLoop
    /\ ~SegmentSkipped(segment)
    /\ LET miles_since_last_fuel == total_distance - last_fuel_miles
           fuel_stop_time == current_time
           fuel_stop_end == fuel_stop_time + FUEL_STOP_DURATION
       IN  IF NeedsFuelStop(total_distance, last_fuel_miles, segment.distance_miles)
           THEN /\ timeline' = Append(timeline,
                        Event(fuel_stop_time, fuel_stop_end, "ON_DUTY", "Fuel Stop",
                              "Fuel Stop", miles_since_last_fuel))
                /\ stops' = Append(stops,
                        Stop("FUEL", fuel_stop_time, "Fuel Stop", "Fuel stop"))
                /\ cumulative_on_duty_hours' = OnDutyAfterFuelStop(cumulative_on_duty_hours)
                /\ current_time' = fuel_stop_end
                /\ last_fuel_miles' = FuelMark(total_distance, segment.distance_miles)
           ELSE UNCHANGED << timeline, stops, cumulative_on_duty_hours, current_time,
                             last_fuel_miles >>
    /\ pc' = "break30"
    /\ UNCHANGED << args, results, grid, view, cumulative_driving_hours, last_break_time, total_distance,
                    seg_idx >>

\* needs_30min_break, for cumulative driving hours cd, the break marker lb
\* and the current time now.
\* Variant: the time since the last break is compared with the 14-hour
\* constant.
Needs30MinBreak_FourteenSinceBreak(cd, lb, now) ==
    /\ cd >= BREAK_REQUIRED_AFTER_DRIVING
    /\ \/ lb = NoTime
       \/ now - lb >= MAX_ON_DUTY_HOURS

Needs30MinBreak(cd, lb, now) ==
    /\ cd >= BREAK_REQUIRED_AFTER_DRIVING
    /\ \/ lb = NoTime
       \/ now - lb >= BREAK_REQUIRED_AFTER_DRIVING

ThirtyMinuteBreakCheck ==
    /\ pc = "break30"
    /\ IF Needs30MinBreak(cumulative_driving_hours, last_break_time, current_time)
       THEN LET break_start == current_time
                break_end == break_start + BREAK_DURATION_MINUTES
            IN  /\ timeline' = Append(timeline,
                        Event(break_start, break_end, "OFF_DUTY", "Rest Stop",
                              "30-minute break required", 0))
                /\ stops' = Append(stops,
                        Stop("BREAK", break_start, "Rest Stop", "30-minute break"))
                /\ current_time' = break_end
                /\ last_break_time' = break_start
                /\ cumulative_driving_hours' = 0
       ELSE UNCHANGED << timeline, stops, current_time, last_break_time,
                         cumulative_driving_hours >>
    /\ pc' = "break10"
    /\ UNCHANGED << args, results, grid, view, cumulative_on_duty_hours, last_fuel_miles, total_distance,
                    seg_idx >>

\* break_reason of the 10-hour check; "" when needs_break stays False.
BreakReason(cd, cod) ==
    IF cd >= MAX_DRIVING_HOURS THEN "11-hour driving limit reached"
    ELSE IF cod >= MAX_ON_DUTY_HOURS THEN "14-hour workday limit reached"
    ELSE ""

\* Variant: the on-duty test uses the 8-hour constant.
NeedsBreak_EightHours(cd, cod) ==
    cd >= MAX_DRIVING_HOURS \/ cod >= BREAK_REQUIRED_AFTER_DRIVING

\* Variant: the limits are tested with > instead of >=.
NeedsBreak_Strict(cd, cod) == cd > MAX_DRIVING_HOURS \/ cod > MAX_ON_DUTY_HOURS

NeedsBreak(cd, cod) == BreakReason(cd, cod) # ""

TenHourBreakCheck ==
    /\ pc = "break10"
    /\ IF NeedsBreak(cumulative_driving_hours, cumulative_on_duty_hours)
       THEN LET break_start == current_time
                break_end == break_start + REQUIRED_BREAK_HOURS
                break_reason == BreakReason(cumulative_driving_hours,
                                            cumulative_on_duty_hours)
            IN  /\ timeline' = Append(timeline,
                        Event(break_start, break_end, "SLEEPER", "Rest Area",
                              break_reason, 0))
                /\ stops' = Append(stops,
                        Stop("REST", break_start, "Rest Area", break_reason))
                /\ current_time' = break_end
                /\ last_break_time' = break_start
                /\ cumulative_driving_hours' = 0
                /\ cumulative_on_duty_hours' = 0
       ELSE UNCHANGED << timeline, stops, current_time, last_break_time,
                         cumulative_driving_hours, cumulative_on_duty_hours >>
    /\ pc' = "drive"
    /\ UNCHANGED << args, results, grid, view, last_fuel_miles, total_distance, seg_idx >>

\* The DRIVING event of a segment that starts at time now.
DrivingEvent(now, seg) ==
    Event(now, now + seg.duration_hours, "DRIVING", "Route Segment",
          "Route segment", seg.distance_miles)

AddDrivingSegment ==
    /\ pc = "drive"
    /\ timeline' = Append(timeline, DrivingEvent(current_time, segment))
    /\ cumulative_driving_hours' = cumulative_driving_hours + segment.duration_hours
    /\ cumulative_on_duty_hours' = cumulative_on_duty_hours + segment.duration_hours
    /\ total_distance' = total_distance + segment.distance_miles
    /\ current_time' = current_time + segment.duration_hours
    /\ seg_idx' = seg_idx + 1
    /\ pc' = "loop"
    /\ UNCHANGED << args, results, grid, view, stops, last_break_time, last_fuel_miles >>

\* Add dropoff (ON_DUTY), one hour, and return.
Dropoff ==
    /\ pc = "loop"
    /\ ~InLoop
    /\ LET dropoff_end == current_time + DROPOFF_DURATION_HOURS
       IN  timeline' = Append(timeline,
               Event(current_time, dropoff_end, "ON_DUTY", "Dropoff Location", "Dropoff", 0))
    /\ cumulative_on_duty_hours' = cumulative_on_duty_hours + DROPOFF_DURATION_HOURS
    /\ pc' = "done"
    /\ UNCHANGED << args, results, grid, view, stops, current_time, cumulative_driving_hours,
                    last_break_time, last_fuel_miles, total_distance, seg_idx >>


\* ---------------------------------------------------------------------
\* check_70_hour_cycle
\* ---------------------------------------------------------------------

\* Variant: the total is compared with < instead of <=.
check_70_hour_cycle_Strict(tl, cycle_hours) ==
    LET RECURSIVE Total(_, _)
        Total(k, acc) ==
            IF k > Len(tl) THEN acc
            ELSE Total(k + 1,
                       IF tl[k].status \in { "DRIVING", "ON_DUTY" }
                       THEN acc + (tl[k].end_time - tl[k].start_time)
                       ELSE acc)
    IN  Total(1, cycle_hours) < MAX_CYCLE_HOURS

check_70_hour_cycle(tl, cycle_hours) ==
    LET RECURSIVE Total(_, _)
        Total(k, acc) ==
            IF k > Len(tl) THEN acc
            ELSE Total(k + 1,
                       IF tl[k].status \in { "DRIVING", "ON_DUTY" }
                       THEN acc + (tl[k].end_time - tl[k].start_time)
                       ELSE acc)
    IN  Total(1, cycle_hours) <= MAX_CYCLE_HOURS

CheckCycle ==
    /\ pc = "done"
    /\ cycle_compliant' = check_70_hour_cycle(timeline, current_cycle_hours)
    /\ pc' = "cycle_checked"
    /\ UNCHANGED << args, grid, view, timeline, stops, current_time, cumulative_driving_hours,
                    cumulative_on_duty_hours, last_break_time, last_fuel_miles,
                    total_distance, seg_idx, daily_logs >>

\* ---------------------------------------------------------------------
\* DailyLogSlicer.slice_timeline
\* ---------------------------------------------------------------------

\* dt.date()
DateOf(t) == t \div MinutesPerDay

\* datetime.combine(current_date, datetime.min.time())
DayStart(d) == d * MinutesPerDay

\* Variant: the day ends at 23:59.
DayEnd_2359(d) == DayStart(d) + MinutesPerDay - 1

\* day_end = day_start + timedelta(days=1)
DayEnd(d) == DayStart(d) + MinutesPerDay

\* Variant: the start is not clipped to the day.
ClipStart_Unclipped(ev, d) == ev.start_time

\* event_start = max(start_time, day_start)
ClipStart(ev, d) == IF ev.start_time >= DayStart(d) THEN ev.start_time ELSE DayStart(d)

\* Variant: the end is not clipped to the day.
ClipEnd_Unclipped(ev, d) == ev.end_time

\* event_end = min(end_time, day_end)
ClipEnd(ev, d) == IF ev.end_time <= DayEnd(d) THEN ev.end_time ELSE DayEnd(d)

\* The bucket a date gets when it is first met.
NewLog(d) == [date |-> d, segments |-> << >>, driving_hours |-> 0, on_duty_hours |-> 0]

\* if date_str not in daily_logs: daily_logs[date_str] = {...}
\* A dict is modelled as the sequence of its values in insertion order.
WithDate(logs, d) ==
    IF \E k \in 1 .. Len(logs) : logs[k].date = d THEN logs ELSE Append(logs, NewLog(d))

\* Variant: sleeper time is counted as on duty.
CountsOnDuty_NotOff(status) == status # "OFF_DUTY"

\* event["status"] in ["DRIVING", "ON_DUTY"]
CountsOnDuty(status) == status \in { "DRIVING", "ON_DUTY" }

\* The bucket of date d after the part of ev that falls on d is added.
AddSlice(log, ev, d) ==
    LET event_start == ClipStart(ev, d)
        event_end == ClipEnd(ev, d)
        duration_hours == event_end - event_start
    IN  IF event_start < event_end
        THEN [log EXCEPT
                !.segments = Append(@, [ev EXCEPT !.start_time = event_start,
                                                  !.end_time = event_end]),
                !.driving_hours = IF ev.status = "DRIVING" THEN @ + duration_hours ELSE @,
                !.on_duty_hours = IF CountsOnDuty(ev.status) THEN @ + duration_hours ELSE @]
        ELSE log

\* One pass of the while loop: the body for current_date = d.
SliceDay(logs, ev, d) ==
    LET present == WithDate(logs, d)
    IN  [k \in 1 .. Len(present) |->
            IF present[k].date = d THEN AddSlice(present[k], ev, d) ELSE present[k]]

\* Variant: the loop stops before the end date.
RECURSIVE SliceEventFrom_Exclusive(_, _, _)
SliceEventFrom_Exclusive(logs, ev, d) ==
    IF d < DateOf(ev.end_time)
    THEN SliceEventFrom_Exclusive(SliceDay(logs, ev, d), ev, d + 1)
    ELSE logs

\* while current_date <= end_date: ...; current_date += timedelta(days=1)
RECURSIVE SliceEventFrom(_, _, _)
SliceEventFrom(logs, ev, d) ==
    IF d <= DateOf(ev.end_time)
    THEN SliceEventFrom(SliceDay(logs, ev, d), ev, d + 1)
    ELSE logs

\* for event in timeline: ...
RECURSIVE SliceEvents(_, _)
SliceEvents(logs, tl) ==
    IF tl = << >> THEN logs
    ELSE SliceEvents(SliceEventFrom(logs, Head(tl), DateOf(Head(tl).start_time)), Tail(tl))

RECURSIVE InsertByDate(_, _)
InsertByDate(sorted, log) ==
    IF sorted = << >> THEN << log >>
    ELSE IF log.date < Head(sorted).date THEN << log >> \o sorted
    ELSE << Head(sorted) >> \o InsertByDate(Tail(sorted), log)

\* Variant: the result is returned in insertion order.
SortByDate_Unsorted(logs) == logs

\* result.sort(key=lambda x: x["date"])
RECURSIVE SortByDate(_)
SortByDate(logs) ==
    IF logs = << >> THEN << >>
    ELSE InsertByDate(SortByDate(SubSeq(logs, 1, Len(logs) - 1)), logs[Len(logs)])

slice_timeline(tl) ==
    IF tl = << >> THEN << >> ELSE SortByDate(SliceEvents(<< >>, tl))

SliceTimeline ==
    /\ pc = "done"
    /\ daily_logs' = slice_timeline(timeline)
    /\ pc' = "sliced"
    /\ UNCHANGED << args, grid, view, timeline, stops, current_time, cumulative_driving_hours,
                    cumulative_on_duty_hours, last_break_time, last_fuel_miles,
                    total_distance, seg_idx, cycle_compliant >>

\* ---------------------------------------------------------------------
\* GridMapper
\* ---------------------------------------------------------------------

GRID_CELLS_PER_DAY == 96

MINUTES_PER_INCREMENT == 15

\* dt.hour
hour(dt) == (dt % MinutesPerDay) \div MinutesPerHour

\* dt.minute
minute(dt) == dt % MinutesPerHour

Max(a, b) == IF a >= b THEN a ELSE b

Min(a, b) == IF a <= b THEN a ELSE b

\* Variant: the minute is rounded to the nearest quarter hour.
time_to_index_Rounded(dt) ==
    LET index == hour(dt) * 4 + ((minute(dt) + 7) \div MINUTES_PER_INCREMENT)
    IN  Max(0, Min(GRID_CELLS_PER_DAY - 1, index))

\* index = hour * 4 + (minute // 15); return max(0, min(95, index))
time_to_index(dt) ==
    LET index == hour(dt) * 4 + (minute(dt) \div MINUTES_PER_INCREMENT)
    IN  Max(0, Min(GRID_CELLS_PER_DAY - 1, index))

STATUS_TO_ROW ==
    [st \in { "OFF_DUTY", "SLEEPER", "DRIVING", "ON_DUTY" } |->
        CASE st = "OFF_DUTY" -> 0
          [] st = "SLEEPER" -> 1
          [] st = "DRIVING" -> 2
          [] st = "ON_DUTY" -> 3]

\* Variant: a status outside the table gets the last row.
RowOf_LastRowDefault(status) ==
    IF status \in DOMAIN STATUS_TO_ROW THEN STATUS_TO_ROW[status] ELSE 3

\* cls.STATUS_TO_ROW.get(segment["status"], 0)
RowOf(status) == IF status \in DOMAIN STATUS_TO_ROW THEN STATUS_TO_ROW[status] ELSE 0

\* mapped_segment = segment.copy() with the three grid keys set.
MappedSegment(seg) ==
    [startIndex |-> time_to_index(seg.start_time),
     endIndex |-> time_to_index(seg.end_time),
     rowIndex |-> RowOf(seg.status)] @@ seg

\* for segment in daily_log["segments"]: mapped_segments.append(mapped_segment)
MappedSegments(daily_log) ==
    [k \in 1 .. Len(daily_log.segments) |-> MappedSegment(daily_log.segments[k])]

\* daily_log["segments"] = mapped_segments: the dict passed in, after the
\* assignment.
AssignSegments(daily_log, mapped_segments) ==
    [daily_log EXCEPT !.segments = mapped_segments]

\* map_segments_to_grid returns the dict it was given: passed is the
\* caller's dict after the call, returned the value of the call.
map_segments_to_grid(daily_log) ==
    LET assigned == AssignSegments(daily_log, MappedSegments(daily_log))
    IN  [passed |-> assigned, returned |-> assigned]

\* [cls.map_segments_to_grid(log) for log in daily_logs]: a new list of the
\* dicts of the list passed in.
map_all_logs(logs) ==
    [passed |-> [k \in 1 .. Len(logs) |-> map_segments_to_grid(logs[k]).passed],
     returned |-> [k \in 1 .. Len(logs) |-> map_segments_to_grid(logs[k]).returned]]

\* daily_logs_data = GridMapper.map_all_logs(daily_logs_data)
MapAllLogs ==
    /\ pc = "sliced"
    /\ LET call == map_all_logs(daily_logs)
       IN  /\ daily_logs' = call.passed
           /\ mapped_logs' = call.returned
    /\ pc' = "mapped"
    /\ UNCHANGED << args, view, timeline, stops, current_time, cumulative_driving_hours,
                    cumulative_on_duty_hours, last_break_time, last_fuel_miles,
                    total_distance, seg_idx, cycle_compliant, grid_dt, grid_index >>

\* GridMapper.time_to_index(dt)
TimeToIndex ==
    /\ pc = "index"
    /\ grid_index' = time_to_index(grid_dt)
    /\ pc' = "indexed"
    /\ UNCHANGED << args, results, view, timeline, stops, current_time,
                    cumulative_driving_hours, cumulative_on_duty_hours, last_break_time,
                    last_fuel_miles, total_distance, seg_idx, mapped_logs, grid_dt >>

\* ---------------------------------------------------------------------
\* process_trip as a function of its arguments
\* ---------------------------------------------------------------------

\* The locals of process_trip when the for-loop is entered: the pickup
\* event is in the timeline and on_duty hours already counted are cod.
LocalsAfterPickup(start, cod) ==
    [timeline |-> << Event(start, start + PICKUP_DURATION_HOURS, "ON_DUTY",
                           "Pickup Location", "Pickup", 0) >>,
     stops |-> << >>,
     current_time |-> start + PICKUP_DURATION_HOURS,
     cumulative_driving_hours |-> 0,
     cumulative_on_duty_hours |-> cod + PICKUP_DURATION_HOURS,
     last_break_time |-> NoTime,
     last_fuel_miles |-> 0,
     total_distance |-> 0]

\* The locals l after the fuel check of segment seg.
AfterFuelCheck(l, seg) ==
    IF NeedsFuelStop(l.total_distance, l.last_fuel_miles, seg.distance_miles)
    THEN [l EXCEPT
            !.timeline = Append(@, Event(l.current_time, l.current_time + FUEL_STOP_DURATION,
                                         "ON_DUTY", "Fuel Stop", "Fuel Stop",
                                         l.total_distance - l.last_fuel_miles)),
            !.stops = Append(@, Stop("FUEL", l.current_time, "Fuel Stop", "Fuel stop")),
            !.cumulative_on_duty_hours = OnDutyAfterFuelStop(@),
            !.current_time = @ + FUEL_STOP_DURATION,
            !.last_fuel_miles = FuelMark(l.total_distance, seg.distance_miles)]
    ELSE l

\* The locals l after the 30-minute check.
AfterThirtyMinuteCheck(l) ==
    IF Needs30MinBreak(l.cumulative_driving_hours, l.last_break_time, l.current_time)
    THEN [l EXCEPT
            !.timeline = Append(@, Event(l.current_time, l.current_time + BREAK_DURATION_MINUTES,
                                         "OFF_DUTY", "Rest Stop", "30-minute break required", 0)),
            !.stops = Append(@, Stop("BREAK", l.current_time, "Rest Stop", "30-minute break")),
            !.current_time = @ + BREAK_DURATION_MINUTES,
            !.last_break_time = l.current_time,
            !.cumulative_driving_hours = 0]
    ELSE l

\* The locals l after the 10-hour check.
AfterTenHourCheck(l) ==
    IF NeedsBreak(l.cumulative_driving_hours, l.cumulative_on_duty_hours)
    THEN LET break_reason == BreakReason(l.cumulative_driving_hours,
                                         l.cumulative_on_duty_hours)
         IN  [l EXCEPT
                !.timeline = Append(@, Event(l.current_time, l.current_time + REQUIRED_BREAK_HOURS,
                                             "SLEEPER", "Rest Area", break_reason, 0)),
                !.stops = Append(@, Stop("REST", l.current_time, "Rest Area", break_reason)),
                !.current_time = @ + REQUIRED_BREAK_HOURS,
                !.last_break_time = l.current_time,
                !.cumulative_driving_hours = 0,
                !.cumulative_on_duty_hours = 0]
    ELSE l

\* The locals l after the DRIVING event of segment seg is added.
AfterDriving(l, seg) ==
    [l EXCEPT
        !.timeline = Append(@, DrivingEvent(l.current_time, seg)),
        !.cumulative_driving_hours = @ + seg.duration_hours,
        !.cumulative_on_duty_hours = @ + seg.duration_hours,
        !.total_distance = @ + seg.distance_miles,
        !.current_time = @ + seg.duration_hours]

\* One pass of the for-loop.
LoopBody(l, seg) ==
    IF SegmentSkipped(seg) THEN l
    ELSE AfterDriving(AfterTenHourCheck(AfterThirtyMinuteCheck(AfterFuelCheck(l, seg))), seg)

\* for segment in route_segments: ...
RECURSIVE ForLoop(_, _)
ForLoop(l, segs) ==
    IF segs = << >> THEN l ELSE ForLoop(LoopBody(l, Head(segs)), Tail(segs))

\* The dropoff event is added and (timeline, stops) returned.
ReturnedFrom(l) ==
    << Append(l.timeline, Event(l.current_time, l.current_time + DROPOFF_DURATION_HOURS,
                                "ON_DUTY", "Dropoff Location", "Dropoff", 0)),
       l.stops >>

\* Variant: the cycle hours already used start the on-duty counter.
process_trip_CycleCounted(segs, start, cycle_hours) ==
    ReturnedFrom(ForLoop(LocalsAfterPickup(start, cycle_hours), segs))

\* The pair (timeline, stops) process_trip returns for its arguments.
process_trip(segs, start, cycle_hours) ==
    ReturnedFrom(ForLoop(LocalsAfterPickup(start, 0), segs))

Next ==
    \/ Pickup
    \/ SkipSegment
    \/ FuelCheck
    \/ ThirtyMinuteBreakCheck
    \/ TenHourBreakCheck
    \/ AddDrivingSegment
    \/ Dropoff
    \/ SliceTimeline
    \/ MapAllLogs

Spec == Init /\ [][Next]_vars

\* ---------------------------------------------------------------------
\* slice_timeline and check_70_hour_cycle called on hand-built timelines
\* ---------------------------------------------------------------------

\* An event of a hand-built timeline.
Ev(st, s, e) == Event(s, e, st, "Route", "Test", 0)

\* Events inside one day, across one midnight, ending at a midnight, across
\* two midnights, on a later day, of zero length, of negative length, and
\* of a status that is none of the four duty statuses.
EventPool ==
    { Ev("DRIVING", 8 * 60, 12 * 60),
      Ev("DRIVING", 22 * 60, 26 * 60),
      Ev("DRIVING", 23 * 60, 29 * 60),
      Ev("ON_DUTY", 23 * 60, 24 * 60),
      Ev("SLEEPER", 20 * 60, 30 * 60),
      Ev("OFF_DUTY", 26 * 60, 26 * 60 + 30),
      Ev("DRIVING", 23 * 60 + 50, 48 * 60 + 10),
      Ev("ON_DUTY", 49 * 60, 50 * 60),
      Ev("OFF_DUTY", 10 * 60, 10 * 60),
      Ev("DRIVING", 12 * 60, 8 * 60),
      Ev("ON_DUTY", 26 * 60, 22 * 60),
      Ev("PERSONAL", 9 * 60, 10 * 60 + 20) }

\* The timeline tl with its k-th event's remarks set to the text of k, so
\* that the events of a timeline differ from one another.
Tagged(tl) == [k \in 1 .. Len(tl) |-> [tl[k] EXCEPT !.remarks = ToString(k)]]

\* current_cycle_hours values given to check_70_hour_cycle.
CyclePool == { 0, 66 * MinutesPerHour, 70 * MinutesPerHour }

InitTimeline ==
    /\ route_segments = << >>
    /\ start_time = 0
    /\ current_cycle_hours \in CyclePool
    /\ timeline \in { Tagged(tl) : tl \in SeqsUpTo(EventPool, MaxEvents) }
    /\ stops = << >>
    /\ current_time = 0
    /\ cumulative_driving_hours = 0
    /\ cumulative_on_duty_hours = 0
    /\ last_break_time = NoTime
    /\ last_fuel_miles = 0
    /\ total_distance = 0
    /\ seg_idx = 1
    /\ pc = "done"
    /\ daily_logs = << >>
    /\ cycle_compliant = FALSE
    /\ mapped_logs = << >>
    /\ grid_dt = 0
    /\ grid_index = NoIndex
    /\ request = NoRequest
    /\ trip_status = "none"
    /\ response_status = 0

NextTimeline ==
    \/ SliceTimeline
    \/ CheckCycle
    \/ MapAllLogs

SpecTimeline == InitTimeline /\ [][NextTimeline]_vars

\* ---------------------------------------------------------------------
\* time_to_index called on the minutes of two days
\* ---------------------------------------------------------------------

\* The days the datetimes given to time_to_index lie on.
MaxDays == 2

InitIndex ==
    /\ route_segments = << >>
    /\ start_time = 0
    /\ current_cycle_hours = 0
    /\ timeline = << >>
    /\ stops = << >>
    /\ current_time = 0
    /\ cumulative_driving_hours = 0
    /\ cumulative_on_duty_hours = 0
    /\ last_break_time = NoTime
    /\ last_fuel_miles = 0
    /\ total_distance = 0
    /\ seg_idx = 1
    /\ pc = "index"
    /\ daily_logs = << >>
    /\ cycle_compliant = FALSE
    /\ mapped_logs = << >>
    /\ grid_dt \in 0 .. MaxDays * MinutesPerDay - 1
    /\ grid_index = NoIndex
    /\ request = NoRequest
    /\ trip_status = "none"
    /\ response_status = 0

NextIndex == TimeToIndex

SpecIndex == InitIndex /\ [][NextIndex]_vars

\* ---------------------------------------------------------------------
\* TripPlanView.post
\* ---------------------------------------------------------------------

\* The segments of the routes the routing service returns.
RouteSegmentPool == { Seg(600, 600), Seg(450, 480) }

\* The keyword arguments of the call of HOSEngine.process_trip in post.
CallKeywords ==
    { "route_segments", "start_time", "current_cycle_hours", "pickup_location",
      "dropoff_location", "pickup_coords", "dropoff_coords", "route_polyline",
      "total_route_distance_miles" }

\* The parameters in the signature of process_trip.
ProcessTripParameters ==
    { "route_segments", "start_time", "current_cycle_hours", "pickup_location",
      "dropoff_location" }

\* A call binds when every keyword names a parameter; otherwise Python
\* raises TypeError before the body runs.
CallBinds(keywords, parameters) == keywords \subseteq parameters

\* A request: valid says whether the serializer accepts it, parsed whether
\* parse_location returns for its three locations, routed whether
\* get_route returns a route.
InitView ==
    /\ request \in [valid : BOOLEAN, parsed : BOOLEAN, routed : BOOLEAN]
    /\ route_segments \in SeqsUpTo(RouteSegmentPool, MaxSegs)
    /\ start_time \in StartTimes
    /\ current_cycle_hours \in CycleHours
    /\ timeline = << >>
    /\ stops = << >>
    /\ current_time = start_time
    /\ cumulative_driving_hours = 0
    /\ cumulative_on_duty_hours = 0
    /\ last_break_time = NoTime
    /\ last_fuel_miles = 0
    /\ total_distance = 0
    /\ seg_idx = 1
    /\ pc = "validate"
    /\ daily_logs = << >>
    /\ cycle_compliant = FALSE
    /\ mapped_logs = << >>
    /\ grid_dt = 0
    /\ grid_index = NoIndex
    /\ trip_status = "none"
    /\ response_status = 0

\* What post leaves alone outside its own state.
engine == << args, results, grid, timeline, stops, current_time,
             cumulative_driving_hours, cumulative_on_duty_hours, last_break_time,
             last_fuel_miles, total_distance, seg_idx >>

\* if not serializer.is_valid(): return Response(..., 400)
Validate ==
    /\ pc = "validate"
    /\ IF request.valid
       THEN pc' = "parse" /\ UNCHANGED response_status
       ELSE pc' = "responded" /\ response_status' = 400
    /\ UNCHANGED << engine, request, trip_status >>

\* parse_location for the three locations, then Trip.objects.create with
\* status "processing".
ParseLocationsAndCreateTrip ==
    /\ pc = "parse"
    /\ IF request.parsed
       THEN pc' = "route" /\ trip_status' = "processing"
       ELSE pc' = "except" /\ UNCHANGED trip_status
    /\ UNCHANGED << engine, request, response_status >>

\* get_route and Route.objects.create.
GetRoute ==
    /\ pc = "route"
    /\ pc' = IF request.routed THEN "engine" ELSE "except"
    /\ UNCHANGED << engine, view >>

\* timeline, stops_data = HOSEngine.process_trip(...): the body of
\* process_trip is entered only if the call binds.
CallProcessTrip ==
    /\ pc = "engine"
    /\ pc' = IF CallBinds(CallKeywords, ProcessTripParameters) THEN "pickup" ELSE "except"
    /\ UNCHANGED << engine, view >>

\* except Exception: the trip, if it exists, is marked failed; 500.
HandleException ==
    /\ pc = "except"
    /\ trip_status' = IF trip_status = "none" THEN "none" ELSE "failed"
    /\ response_status' = 500
    /\ pc' = "responded"
    /\ UNCHANGED << engine, request >>

NextView ==
    \/ Validate
    \/ ParseLocationsAndCreateTrip
    \/ GetRoute
    \/ CallProcessTrip
    \/ HandleException

SpecView == InitView /\ [][NextView]_vars

TypeOK ==
    /\ pc \in { "pickup", "loop", "break30", "break10", "drive", "done", "sliced",
               "cycle_checked", "mapped", "index", "indexed", "validate", "parse",
               "route", "engine", "except", "responded" }
    /\ seg_idx \in 1 .. Len(route_segments) + 1

\* ---------------------------------------------------------------------
\* Helpers of the properties
\* ---------------------------------------------------------------------

RECURSIVE SeqSum(_)
SeqSum(s) == IF s = << >> THEN 0 ELSE Head(s) + SeqSum(Tail(s))

Duration(e) == e.end_time - e.start_time

IsDriving(e) == e.status = "DRIVING"

DrivingEvents(tl) == SelectSeq(tl, IsDriving)

\* The (distance, duration) legs of the DRIVING events, in timeline order.
DrivingLegs(tl) ==
    LET dr == DrivingEvents(tl)
    IN  [k \in 1 .. Len(dr) |-> << dr[k].miles, Duration(dr[k]) >>]

IsValidSegment(seg) == seg.distance_miles > 0 /\ seg.duration_hours > 0

\* The (distance, duration) legs of the segments with distance > 0 and
\* duration > 0, in input order.
ValidLegs(segs) ==
    LET ok == SelectSeq(segs, IsValidSegment)
    IN  [k \in 1 .. Len(ok) |-> << ok[k].distance_miles, ok[k].duration_hours >>]

ValidDrivingTotal(segs) ==
    LET legs == ValidLegs(segs)
    IN  SeqSum([k \in 1 .. Len(legs) |-> legs[k][2]])

\* Total duration of the events of tl after position k whose status is in S.
TimeAfter(tl, k, S) ==
    SeqSum([j \in 1 .. Len(tl) - k |->
              IF tl[k + j].status \in S THEN Duration(tl[k + j]) ELSE 0])

\* Position of the last event of tl whose status is in S, 0 if none.
LastOf(tl, S) ==
    LET ks == { k \in 1 .. Len(tl) : tl[k].status \in S }
    IN  IF ks = {} THEN 0 ELSE CHOOSE k \in ks : \A j \in ks : j <= k

SleeperEvents(tl) == { k \in 1 .. Len(tl) : tl[k].status = "SLEEPER" }

FuelEvents(tl) == { k \in 1 .. Len(tl) : tl[k].location = "Fuel Stop" }

StopsOfType(ty) == { k \in 1 .. Len(stops) : stops[k].type = ty }

\* ---------------------------------------------------------------------
\* Properties
\* ---------------------------------------------------------------------

\* C1: the timeline process_trip returns is contiguous and non-overlapping:
\* its first event starts at start_time, every later event starts where the
\* previous one ends, and every event ends strictly after it starts.
C1_TimelineContiguous ==
    pc = "done" =>
        /\ timeline[1].start_time = start_time
        /\ \A k \in 2 .. Len(timeline) :
               timeline[k].start_time = timeline[k - 1].end_time
        /\ \A k \in 1 .. Len(timeline) :
               timeline[k].end_time > timeline[k].start_time

\* A returned timeline with a fuel stop, a 30-minute break, a 10-hour break
\* and a driving leg.
C1_Witness ==
    /\ pc = "done"
    /\ \E a, b, c, d \in 1 .. Len(timeline) :
           /\ timeline[a].location = "Fuel Stop"
           /\ timeline[b].status = "OFF_DUTY"
           /\ timeline[c].status = "SLEEPER"
           /\ timeline[d].status = "DRIVING"

\* C2: the returned timeline holds exactly one DRIVING event per segment
\* with distance > 0 and duration > 0, in input order and with the segment's
\* duration (so the DRIVING durations sum to the valid segments' durations),
\* and skipping a segment with distance <= 0 or duration <= 0 emits nothing.
C2_OneDrivingEventPerValidSegment ==
    /\ [](pc = "done" =>
            /\ DrivingLegs(timeline) = ValidLegs(route_segments)
            /\ SeqSum([k \in 1 .. Len(DrivingEvents(timeline)) |->
                          Duration(DrivingEvents(timeline)[k])])
                 = ValidDrivingTotal(route_segments))
    /\ [][(pc = "loop" /\ InLoop /\ ~IsValidSegment(segment)) =>
             (timeline' = timeline /\ stops' = stops /\ pc' = "loop")]_vars

\* A finished trip with a degenerate segment between two valid ones.
C2_Witness ==
    /\ pc = "done"
    /\ Len(route_segments) = 3
    /\ IsValidSegment(route_segments[1])
    /\ ~IsValidSegment(route_segments[2])
    /\ IsValidSegment(route_segments[3])
    /\ Len(DrivingEvents(timeline)) = 2

\* C3: when a DRIVING event is about to be appended, the counters as they
\* stand before the segment's duration is added satisfy
\* cumulative_driving_hours < 11h and cumulative_on_duty_hours < 14h.
C3_CountersBelowLimitsAtDriving ==
    pc = "drive" =>
        /\ cumulative_driving_hours < 11 * 60
        /\ cumulative_on_duty_hours < 14 * 60

\* A DRIVING event about to be appended right after a 10-hour break that the
\* 14-hour limit forced.
C3_Witness ==
    /\ pc = "drive"
    /\ timeline[Len(timeline)].status = "SLEEPER"
    /\ total_distance > 0

\* C4: the 11-hour driving limit: the DRIVING time since trip start or since
\* the last SLEEPER event never exceeds 11 hours, and a trip whose segments
\* drive more than 11 hours has a 10-hour SLEEPER event in its timeline.
C4_ElevenHourLimitEnforced ==
    /\ TimeAfter(timeline, LastOf(timeline, {"SLEEPER"}), {"DRIVING"}) <= 11 * 60
    /\ (pc = "done" /\ ValidDrivingTotal(route_segments) > 11 * 60) =>
           \E k \in SleeperEvents(timeline) : Duration(timeline[k]) = 10 * 60

\* C5: Scenario A: segments (600 mi, 10 h), (100 mi, 2 h) with cycle hours 0
\* give exactly one SLEEPER event, 10 hours long, triggered by the 11-hour
\* driving limit and placed between the two DRIVING events.
C5_ScenarioA ==
    ( /\ pc = "done"
      /\ route_segments = << Seg(600, 600), Seg(100, 120) >>
      /\ current_cycle_hours = 0 ) =>
        /\ Cardinality(SleeperEvents(timeline)) = 1
        /\ \A k \in SleeperEvents(timeline) :
               /\ Duration(timeline[k]) = 10 * 60
               /\ timeline[k].remarks = "11-hour driving limit reached"
               /\ \E a \in 1 .. k - 1 : timeline[a].status = "DRIVING"
               /\ \E b \in k + 1 .. Len(timeline) : timeline[b].status = "DRIVING"

\* C6: the 14-hour workday limit: the ON_DUTY plus DRIVING time since trip
\* start or since the last SLEEPER event never goes past 14 hours, and a
\* trip whose 1-hour pickup plus driving reaches 14 hours has a SLEEPER
\* event in its timeline.
C6_FourteenHourLimitEnforced ==
    /\ TimeAfter(timeline, LastOf(timeline, {"SLEEPER"}), {"ON_DUTY", "DRIVING"})
           <= 14 * 60
    /\ (pc = "done" /\ 60 + ValidDrivingTotal(route_segments) >= 14 * 60) =>
           SleeperEvents(timeline) # {}

\* C7: the 30-minute break: a trip whose segments drive more than 8 hours
\* has a BREAK stop, and no more than 8 hours of DRIVING accumulate without
\* an OFF_DUTY or SLEEPER event in between.
C7_ThirtyMinuteBreakEnforced ==
    /\ (pc = "done" /\ ValidDrivingTotal(route_segments) > 8 * 60) =>
           StopsOfType("BREAK") # {}
    /\ TimeAfter(timeline, LastOf(timeline, {"OFF_DUTY", "SLEEPER"}), {"DRIVING"})
           <= 8 * 60

\* C8: Scenario B: the single segment (1200 mi, 20 h) with cycle hours 0
\* gives a FUEL stop recorded before the cumulative distance reaches 1000
\* miles and at least one SLEEPER event.
C8_ScenarioB ==
    ( /\ pc = "done"
      /\ route_segments = << Seg(1200, 1200) >>
      /\ current_cycle_hours = 0 ) =>
        /\ \E s \in StopsOfType("FUEL") :
               \E k \in FuelEvents(timeline) :
                   /\ timeline[k].start_time = stops[s].time
                   /\ SeqSum([j \in 1 .. k |->
                         IF IsDriving(timeline[j]) THEN timeline[j].miles ELSE 0]) < 1000
        /\ SleeperEvents(timeline) # {}

\* C9: for a valid segment the fuel step inserts a fuel stop if and only if
\* (total_distance - last_fuel_miles) + segment distance >= 1000; the fuel
\* stop is one 0.5-hour ON_DUTY event at "Fuel Stop" plus one FUEL stop
\* timed at the pre-segment current time, it adds 0.5 h to the on-duty
\* counter and nothing to the driving counter, and it sets last_fuel_miles
\* to total_distance as it stands before the segment's distance is added.
C9_FuelStopRule ==
    [][(pc = "loop" /\ pc' = "break30") =>
         LET needed == (total_distance - last_fuel_miles)
                           + route_segments[seg_idx].distance_miles >= 1000
             ev == timeline'[Len(timeline')]
             st == stops'[Len(stops')]
         IN  /\ needed <=> Len(timeline') = Len(timeline) + 1
             /\ needed <=> Len(stops') = Len(stops) + 1
             /\ needed =>
                  /\ SubSeq(timeline', 1, Len(timeline)) = timeline
                  /\ SubSeq(stops', 1, Len(stops)) = stops
                  /\ ev.status = "ON_DUTY"
                  /\ ev.location = "Fuel Stop"
                  /\ ev.start_time = current_time
                  /\ ev.end_time = current_time + 30
                  /\ st.type = "FUEL"
                  /\ st.time = current_time
                  /\ current_time' = current_time + 30
                  /\ cumulative_on_duty_hours' = cumulative_on_duty_hours + 30
                  /\ last_fuel_miles' = total_distance
             /\ ~needed =>
                  /\ timeline' = timeline
                  /\ stops' = stops
                  /\ cumulative_on_duty_hours' = cumulative_on_duty_hours
                  /\ last_fuel_miles' = last_fuel_miles
                  /\ current_time' = current_time
             /\ cumulative_driving_hours' = cumulative_driving_hours
             /\ total_distance' = total_distance]_vars

\* A fuel stop just inserted in the middle of a trip: the mark is the
\* distance driven so far, the segment's own distance not yet added.
C9_Witness ==
    /\ pc = "break30"
    /\ timeline[Len(timeline)].location = "Fuel Stop"
    /\ Len(stops) > 0
    /\ stops[Len(stops)].type = "FUEL"
    /\ total_distance > 0
    /\ last_fuel_miles = total_distance

\* Miles of the DRIVING events of tl strictly between positions a and b.
MilesBetween(tl, a, b) ==
    SeqSum([j \in 1 .. b - a - 1 |->
              IF IsDriving(tl[a + j]) THEN tl[a + j].miles ELSE 0])

\* Fuel-stop events a < b of tl with no fuel stop between them.
ConsecutiveFuelStops(tl) ==
    { ab \in FuelEvents(tl) \X FuelEvents(tl) :
        /\ ab[1] < ab[2]
        /\ \A k \in FuelEvents(tl) : ~(ab[1] < k /\ k < ab[2]) }

\* Position of the first DRIVING event of tl after position b, 0 if none.
NextDriving(tl, b) ==
    LET ks == { k \in b + 1 .. Len(tl) : IsDriving(tl[k]) }
    IN  IF ks = {} THEN 0 ELSE CHOOSE k \in ks : \A j \in ks : k <= j

\* C10: the distance driven between two consecutive FUEL stops is at least
\* 1000 miles minus the distance of the segment that follows the second of
\* the two stops.
C10_FuelStopSpacing ==
    \A ab \in ConsecutiveFuelStops(timeline) :
        LET n == NextDriving(timeline, ab[2])
        IN  n # 0 =>
              MilesBetween(timeline, ab[1], ab[2]) >= 1000 - timeline[n].miles

\* A returned timeline with two consecutive fuel stops less than 1000 miles
\* apart.
C10_Witness ==
    /\ pc = "done"
    /\ \E ab \in ConsecutiveFuelStops(timeline) :
           /\ MilesBetween(timeline, ab[1], ab[2]) > 0
           /\ MilesBetween(timeline, ab[1], ab[2]) < 1000

\* C11: every SLEEPER event lasts exactly 10 hours and comes with one REST
\* stop at its start time; it is inserted only when the driving counter is
\* at least 11 h or the on-duty counter at least 14 h, and right after it
\* both counters are 0 and last_break_time is the SLEEPER's start.
C11_SleeperRule ==
    /\ [](/\ \A k \in SleeperEvents(timeline) : Duration(timeline[k]) = 10 * 60
          /\ Cardinality(StopsOfType("REST")) = Cardinality(SleeperEvents(timeline))
          /\ \A k \in SleeperEvents(timeline) :
                 Cardinality({ s \in StopsOfType("REST") :
                                 stops[s].time = timeline[k].start_time }) = 1)
    /\ [][(Len(timeline') = Len(timeline) + 1
             /\ timeline'[Len(timeline')].status = "SLEEPER") =>
            /\ (cumulative_driving_hours >= 11 * 60
                  \/ cumulative_on_duty_hours >= 14 * 60)
            /\ timeline'[Len(timeline')].start_time = current_time
            /\ Len(stops') = Len(stops) + 1
            /\ stops'[Len(stops')].type = "REST"
            /\ stops'[Len(stops')].time = current_time
            /\ cumulative_driving_hours' = 0
            /\ cumulative_on_duty_hours' = 0
            /\ last_break_time' = current_time]_vars

\* A 10-hour break just inserted, with both counters back at 0.
C11_Witness ==
    /\ pc = "drive"
    /\ timeline[Len(timeline)].status = "SLEEPER"
    /\ stops[Len(stops)].type = "REST"
    /\ cumulative_on_duty_hours = 0
    /\ last_break_time = timeline[Len(timeline)].start_time

\* C12: every 30-minute break is a 0.5-hour OFF_DUTY event with one BREAK
\* stop at its start time; right after it the driving counter is 0, the
\* on-duty counter is what it was right before, and last_break_time is the
\* break's start.
C12_ThirtyMinuteBreakRule ==
    /\ [](/\ \A k \in 1 .. Len(timeline) :
                 timeline[k].status = "OFF_DUTY" => Duration(timeline[k]) = 30
          /\ Cardinality(StopsOfType("BREAK"))
               = Cardinality({ k \in 1 .. Len(timeline) : timeline[k].status = "OFF_DUTY" })
          /\ \A k \in 1 .. Len(timeline) :
                 timeline[k].status = "OFF_DUTY" =>
                     Cardinality({ s \in StopsOfType("BREAK") :
                                     stops[s].time = timeline[k].start_time }) = 1)
    /\ [][(Len(timeline') = Len(timeline) + 1
             /\ timeline'[Len(timeline')].status = "OFF_DUTY") =>
            /\ timeline'[Len(timeline')].start_time = current_time
            /\ timeline'[Len(timeline')].end_time = current_time + 30
            /\ Len(stops') = Len(stops) + 1
            /\ stops'[Len(stops')].type = "BREAK"
            /\ stops'[Len(stops')].time = current_time
            /\ cumulative_driving_hours' = 0
            /\ cumulative_on_duty_hours' = cumulative_on_duty_hours
            /\ last_break_time' = current_time]_vars

\* A 30-minute break just inserted while the on-duty counter stands above 0.
C12_Witness ==
    /\ pc = "break10"
    /\ timeline[Len(timeline)].status = "OFF_DUTY"
    /\ stops[Len(stops)].type = "BREAK"
    /\ cumulative_driving_hours = 0
    /\ cumulative_on_duty_hours > 8 * 60

\* C13: the returned timeline starts with a 1-hour ON_DUTY pickup event at
\* start_time and ends with a 1-hour ON_DUTY dropoff event; pickup and
\* dropoff add nothing to stops (every stop is a FUEL, BREAK or REST stop),
\* and with no valid segment the timeline is exactly these two events.
C13_PickupAndDropoff ==
    /\ [](pc = "done" =>
            LET first == timeline[1]
                last == timeline[Len(timeline)]
            IN  /\ Len(timeline) >= 2
                /\ first.status = "ON_DUTY"
                /\ first.location = "Pickup Location"
                /\ first.start_time = start_time
                /\ Duration(first) = 60
                /\ last.status = "ON_DUTY"
                /\ last.location = "Dropoff Location"
                /\ Duration(last) = 60
                /\ \A s \in 1 .. Len(stops) : stops[s].type \in { "FUEL", "BREAK", "REST" }
                /\ ValidLegs(route_segments) = << >> => Len(timeline) = 2 /\ stops = << >>)
    /\ [][(pc = "pickup" \/ pc' = "done") => stops' = stops]_vars

\* A returned timeline for a non-empty list of degenerate segments only.
C13_Witness ==
    /\ pc = "done"
    /\ Len(route_segments) >= 2
    /\ ValidLegs(route_segments) = << >>
    /\ Len(timeline) = 2

\* ---------------------------------------------------------------------
\* Helpers of the slicer properties
\* ---------------------------------------------------------------------

\* The slices of the k-th timeline event in a daily log: the positions of
\* the log's segments copied from that event.
SlicesIn(log, k) ==
    { j \in 1 .. Len(log.segments) : log.segments[j].remarks = timeline[k].remarks }

\* Total duration of the segments of log whose position is in J.
SliceTime(log, J) ==
    SeqSum([j \in 1 .. Len(log.segments) |->
              IF j \in J THEN Duration(log.segments[j]) ELSE 0])

\* Total duration of the slices of the k-th event over all daily logs.
SlicedTime(k) ==
    SeqSum([i \in 1 .. Len(daily_logs) |->
              SliceTime(daily_logs[i], SlicesIn(daily_logs[i], k))])

\* The dates whose daily log holds a slice of the k-th event.
BucketsOf(k) ==
    { daily_logs[i].date : i \in { n \in 1 .. Len(daily_logs) :
                                     SlicesIn(daily_logs[n], k) # {} } }

CeilDiv(a, b) == (a + b - 1) \div b

PositiveEvents == { k \in 1 .. Len(timeline) : timeline[k].end_time > timeline[k].start_time }

\* The position in the timeline of the event a segment was copied from.
SourceOf(seg) == CHOOSE k \in 1 .. Len(timeline) : timeline[k].remarks = seg.remarks

\* ---------------------------------------------------------------------
\* Properties of check_70_hour_cycle and slice_timeline
\* ---------------------------------------------------------------------

\* C14: check_70_hour_cycle returns true if and only if current_cycle_hours
\* plus the durations of all DRIVING and ON_DUTY events is at most 70 hours;
\* OFF_DUTY and SLEEPER events add nothing, and the timeline is not modified.
C14_CycleCheck ==
    /\ [](pc = "cycle_checked" =>
            (cycle_compliant <=>
               current_cycle_hours + TimeAfter(timeline, 0, { "DRIVING", "ON_DUTY" })
                  <= 70 * 60))
    /\ [][pc' = "cycle_checked" => timeline' = timeline]_vars

\* A compliant result at exactly 70 hours, with a SLEEPER event in the
\* timeline.
C14_Witness ==
    /\ pc = "cycle_checked"
    /\ cycle_compliant
    /\ current_cycle_hours > 0
    /\ current_cycle_hours + TimeAfter(timeline, 0, { "DRIVING", "ON_DUTY" }) = 70 * 60
    /\ SleeperEvents(timeline) # {}

\* C15: conservation: for every event with end_time > start_time, the
\* durations of its day-clipped slices over all daily logs sum to exactly
\* the event's duration.
C15_SliceConservation ==
    pc = "sliced" =>
        \A k \in PositiveEvents : SlicedTime(k) = Duration(timeline[k])

\* A sliced timeline with an event across two midnights.
C15_Witness ==
    /\ pc = "sliced"
    /\ \E k \in PositiveEvents :
           /\ Cardinality(BucketsOf(k)) = 3
           /\ SlicedTime(k) > 24 * 60

\* C16 as stated: an event spanning midnight appears in exactly
\* ceil(span / 24h) consecutive day buckets, each with the clipped duration.
C16_CeilSpanBuckets ==
    pc = "sliced" =>
        \A k \in PositiveEvents :
            DateOf(timeline[k].start_time) < DateOf(timeline[k].end_time) =>
                Cardinality(BucketsOf(k)) = CeilDiv(Duration(timeline[k]), 24 * 60)

\* C16 as amended: an event with end_time > start_time appears in exactly
\* one day bucket for each calendar date from its start date to the date of
\* its last instant, and in no other; that is ceil(span / 24h) buckets or
\* one more; each bucket holds one slice, the event clipped to that day.
C16_BucketsPerCalendarDay ==
    pc = "sliced" =>
        \A k \in PositiveEvents :
            LET ev == timeline[k]
                first == DateOf(ev.start_time)
                last == DateOf(ev.end_time - 1)
                n == Cardinality(BucketsOf(k))
            IN  /\ BucketsOf(k) = first .. last
                /\ n = last - first + 1
                /\ n \in { CeilDiv(Duration(ev), 24 * 60), CeilDiv(Duration(ev), 24 * 60) + 1 }
                /\ \A i \in 1 .. Len(daily_logs) :
                       LET d == daily_logs[i].date
                       IN  d \in first .. last =>
                             /\ Cardinality(SlicesIn(daily_logs[i], k)) = 1
                             /\ \A j \in SlicesIn(daily_logs[i], k) :
                                    LET sl == daily_logs[i].segments[j]
                                    IN  /\ sl.start_time = (IF d = first THEN ev.start_time
                                                            ELSE d * 24 * 60)
                                        /\ sl.end_time = (IF d = last THEN ev.end_time
                                                          ELSE (d + 1) * 24 * 60)
                                        /\ sl.status = ev.status

\* A 4-hour event across one midnight, sliced into two buckets.
C16_Witness ==
    /\ pc = "sliced"
    /\ \E k \in PositiveEvents :
           /\ Duration(timeline[k]) = 4 * 60
           /\ Cardinality(BucketsOf(k)) = 2

\* C17: Scenario C: a timeline of one DRIVING event that starts x hours
\* before a midnight and ends y hours after it (x, y > 0, y < 24) gives
\* exactly 2 daily logs, for the two consecutive dates, with driving_hours
\* x in the first and y in the second.
C17_ScenarioC ==
    ( /\ pc = "sliced"
      /\ Len(timeline) = 1
      /\ timeline[1].status = "DRIVING"
      /\ DateOf(timeline[1].end_time) = DateOf(timeline[1].start_time) + 1
      /\ timeline[1].end_time > DateOf(timeline[1].end_time) * 24 * 60 ) =>
        LET midnight == DateOf(timeline[1].end_time) * 24 * 60
        IN  /\ Len(daily_logs) = 2
            /\ daily_logs[1].date = DateOf(timeline[1].start_time)
            /\ daily_logs[2].date = DateOf(timeline[1].start_time) + 1
            /\ daily_logs[1].driving_hours = midnight - timeline[1].start_time
            /\ daily_logs[2].driving_hours = timeline[1].end_time - midnight

\* The spec's case: DRIVING from 22:00 to 02:00, two hours on each day.
C17_Witness ==
    /\ pc = "sliced"
    /\ Len(timeline) = 1
    /\ timeline[1].status = "DRIVING"
    /\ timeline[1].start_time = 22 * 60
    /\ timeline[1].end_time = 26 * 60
    /\ Len(daily_logs) = 2
    /\ daily_logs[1].driving_hours = 2 * 60
    /\ daily_logs[2].driving_hours = 2 * 60

\* C18: in every daily log driving_hours is the total duration of the day's
\* DRIVING slices and on_duty_hours the total duration of the day's DRIVING
\* and ON_DUTY slices; OFF_DUTY and SLEEPER slices add to neither.
C18_DailyTotals ==
    pc = "sliced" =>
        \A i \in 1 .. Len(daily_logs) :
            LET log == daily_logs[i]
                WithStatus(S) == { j \in 1 .. Len(log.segments) : log.segments[j].status \in S }
            IN  /\ log.driving_hours = SliceTime(log, WithStatus({ "DRIVING" }))
                /\ log.on_duty_hours = SliceTime(log, WithStatus({ "DRIVING", "ON_DUTY" }))

\* A daily log holding DRIVING, ON_DUTY and SLEEPER slices.
C18_Witness ==
    /\ pc = "sliced"
    /\ \E i \in 1 .. Len(daily_logs) :
           /\ { daily_logs[i].segments[j].status : j \in 1 .. Len(daily_logs[i].segments) }
                = { "DRIVING", "ON_DUTY", "SLEEPER" }
           /\ 0 < daily_logs[i].driving_hours
           /\ daily_logs[i].driving_hours < daily_logs[i].on_duty_hours

\* C19: an empty timeline gives an empty list; otherwise there is at most
\* one daily log per date, the logs are in ascending date order, and the
\* segments of each log are in the relative order of their source events.
C19_LogsUniqueSortedOrdered ==
    pc = "sliced" =>
        /\ timeline = << >> => daily_logs = << >>
        /\ \A i, j \in 1 .. Len(daily_logs) :
               i < j => daily_logs[i].date < daily_logs[j].date
        /\ \A i \in 1 .. Len(daily_logs) :
               \A a, b \in 1 .. Len(daily_logs[i].segments) :
                   a < b => SourceOf(daily_logs[i].segments[a])
                              < SourceOf(daily_logs[i].segments[b])

\* A timeline whose first event lies on a later date than its second one,
\* sliced into several logs, one of them with two segments.
C19_Witness ==
    /\ pc = "sliced"
    /\ Len(timeline) >= 2
    /\ DateOf(timeline[1].start_time) > DateOf(timeline[2].end_time)
    /\ timeline[2].end_time > timeline[2].start_time
    /\ Len(daily_logs) >= 2
    /\ \E i \in 1 .. Len(daily_logs) : Len(daily_logs[i].segments) >= 2

\* C20: when the timeline holds an event with end_time earlier than
\* start_time, slice_timeline fails with an error and returns no result.
C20_NegativeDurationRaises ==
    (\E k \in 1 .. Len(timeline) : timeline[k].end_time < timeline[k].start_time) =>
        pc # "sliced"

\* ---------------------------------------------------------------------
\* GridMapper: properties
\* ---------------------------------------------------------------------

\* The hour h in 0..23 and minute m in 0..59 of the datetime t.
HourOf(t) == (t \div MinutesPerHour) % 24

MinuteOf(t) == t - MinutesPerHour * (t \div MinutesPerHour)

\* C21: for a datetime with hour h in 0..23 and minute m in 0..59,
\* time_to_index returns 4*h + floor(m/15), a value in 0..95; 00:00 gives
\* 0, 06:00 gives 24, 08:30 gives 34 and 23:45 gives 95.
C21_TimeToIndexIsQuarterHour ==
    pc = "indexed" =>
        /\ grid_index = 4 * HourOf(grid_dt) + (MinuteOf(grid_dt) \div 15)
        /\ grid_index \in 0 .. 95
        /\ (HourOf(grid_dt) = 0 /\ MinuteOf(grid_dt) = 0) => grid_index = 0
        /\ (HourOf(grid_dt) = 6 /\ MinuteOf(grid_dt) = 0) => grid_index = 24
        /\ (HourOf(grid_dt) = 8 /\ MinuteOf(grid_dt) = 30) => grid_index = 34
        /\ (HourOf(grid_dt) = 23 /\ MinuteOf(grid_dt) = 45) => grid_index = 95

\* time_to_index has returned for 23:59 of the second day.
C21_Witness ==
    /\ pc = "indexed"
    /\ grid_dt = MinutesPerDay + 23 * MinutesPerHour + 59
    /\ grid_index = 95

GridKeys == { "startIndex", "endIndex", "rowIndex" }

\* The row the text of the mapping gives a status.
RowInTable(status) ==
    CASE status = "OFF_DUTY" -> 0
      [] status = "SLEEPER" -> 1
      [] status = "DRIVING" -> 2
      [] status = "ON_DUTY" -> 3
      [] OTHER -> 0

\* The segment out is the segment in with the three grid keys added.
IsMappedFrom(out, in) ==
    /\ DOMAIN out = DOMAIN in \cup GridKeys
    /\ \A f \in DOMAIN in : out[f] = in[f]
    /\ out.startIndex = time_to_index(in.start_time)
    /\ out.endIndex = time_to_index(in.end_time)
    /\ out.rowIndex = RowInTable(in.status)

\* The log out is the log in with every segment mapped, in the same order.
IsMappedLog(out, in) ==
    /\ out.date = in.date
    /\ out.driving_hours = in.driving_hours
    /\ out.on_duty_hours = in.on_duty_hours
    /\ Len(out.segments) = Len(in.segments)
    /\ \A j \in 1 .. Len(in.segments) : IsMappedFrom(out.segments[j], in.segments[j])

\* C22: the logs map_all_logs returns have the date, driving_hours and
\* on_duty_hours of the logs it was given and the same segments in the
\* same order, each segment keeping all its fields and gaining startIndex
\* = time_to_index(start_time), endIndex = time_to_index(end_time) and
\* rowIndex = 0, 1, 2, 3 for OFF_DUTY, SLEEPER, DRIVING, ON_DUTY and 0 for
\* any other status.
C22_MappedLogsKeepFieldsAddIndices ==
    [][ pc' = "mapped" =>
          /\ Len(mapped_logs') = Len(daily_logs)
          /\ \A k \in 1 .. Len(daily_logs) : IsMappedLog(mapped_logs'[k], daily_logs[k])
      ]_vars

\* A mapped log holds a DRIVING segment on row 2 and, after it, a segment
\* of a status outside the table on row 0.
C22_Witness ==
    /\ pc = "mapped"
    /\ \E k \in 1 .. Len(mapped_logs) :
          \E i, j \in 1 .. Len(mapped_logs[k].segments) :
              /\ i < j
              /\ mapped_logs[k].segments[i].status = "DRIVING"
              /\ mapped_logs[k].segments[i].rowIndex = 2
              /\ mapped_logs[k].segments[j].status = "PERSONAL"
              /\ mapped_logs[k].segments[j].rowIndex = 0
              /\ mapped_logs[k].segments[j].startIndex = 36
              /\ mapped_logs[k].segments[j].endIndex = 41

\* Some segment of the logs carries a grid key.
CarriesGridKeys(logs) ==
    \E k \in 1 .. Len(logs) :
        \E j \in 1 .. Len(logs[k].segments) :
            DOMAIN logs[k].segments[j] \cap GridKeys # { }

\* C23: map_segments_to_grid and map_all_logs are free of side effects:
\* after the call the daily logs that were passed in are unchanged and
\* their segments still carry no startIndex, endIndex or rowIndex.
C23_MappingLeavesArgumentUnchanged ==
    [][ pc' = "mapped" =>
          /\ daily_logs' = daily_logs
          /\ ~CarriesGridKeys(daily_logs')
      ]_vars

\* ---------------------------------------------------------------------
\* process_trip: order of the checks
\* ---------------------------------------------------------------------

\* The check that inserted the event e: 1 the fuel check, 2 the 30-minute
\* check, 3 the 10-hour check, 0 for an event no check inserted.
InsertedBy(e) ==
    CASE e.status = "ON_DUTY" /\ e.location = "Fuel Stop" -> 1
      [] e.status = "OFF_DUTY" -> 2
      [] e.status = "SLEEPER" -> 3
      [] OTHER -> 0

\* C24: between two consecutive DRIVING events, or between the pickup and
\* the first DRIVING event, the timeline holds at most one Fuel Stop
\* event, then at most one OFF_DUTY break, then at most one SLEEPER
\* event, in that order, and the 0.5 on-duty hours of a fuel stop are
\* already counted when the 14-hour check of the same segment is
\* evaluated.
C24_FuelThenBreakThenSleeper ==
    /\ \A k \in 1 .. Len(timeline) - 1 :
          InsertedBy(timeline[k]) # 0 =>
              \/ timeline[k + 1].status = "DRIVING"
              \/ InsertedBy(timeline[k + 1]) > InsertedBy(timeline[k])
    /\ \A k \in 1 .. Len(timeline) :
          InsertedBy(timeline[k]) # 0 =>
              \/ k < Len(timeline)
              \/ pc \in { "break30", "break10", "drive" }
    /\ pc = "break10" =>
          cumulative_on_duty_hours =
              TimeAfter(timeline, LastOf(timeline, { "SLEEPER" }), { "ON_DUTY", "DRIVING" })

\* The 14-hour check is about to run after a fuel stop and a 30-minute
\* break of the same segment, the on-duty hours are at the limit, and the
\* Fuel Stop event comes right after a DRIVING event.
C24_Witness ==
    /\ pc = "break10"
    /\ Len(timeline) >= 3
    /\ timeline[Len(timeline) - 2].status = "DRIVING"
    /\ InsertedBy(timeline[Len(timeline) - 1]) = 1
    /\ InsertedBy(timeline[Len(timeline)]) = 2
    /\ cumulative_on_duty_hours >= MAX_ON_DUTY_HOURS

C27_ResultIgnoresCycleHours ==
    pc = "done" =>
        \A c \in CycleHours :
            process_trip(route_segments, start_time, c) = << timeline, stops >>

\* process_trip has returned for 70 cycle hours already used, the cycle
\* check of its timeline is false, and the call with 0 cycle hours
\* returns the same timeline and stops, DRIVING events among them.
C27_Witness ==
    /\ pc = "done"
    /\ current_cycle_hours = MAX_CYCLE_HOURS
    /\ ~check_70_hour_cycle(timeline, current_cycle_hours)
    /\ DrivingEvents(timeline) # << >>
    /\ process_trip(route_segments, start_time, 0) = << timeline, stops >>

\* ---------------------------------------------------------------------
\* Daily logs of a trip
\* ---------------------------------------------------------------------

\* The calendar dates on which some event of tl has positive duration.
OccupiedDates(tl) ==
    UNION { DateOf(tl[k].start_time) .. DateOf(tl[k].end_time - 1) :
              k \in { j \in 1 .. Len(tl) : tl[j].end_time > tl[j].start_time } }

\* C28: every daily log slice_timeline returns holds at least one segment:
\* a date gets a bucket only if some event has positive duration on that
\* date, also when an event ends exactly at midnight, so the number of
\* daily logs equals the number of calendar days the timeline occupies.
C28_NoEmptyDailyLog ==
    pc = "sliced" =>
        /\ \A i \in 1 .. Len(daily_logs) : Len(daily_logs[i].segments) >= 1
        /\ { daily_logs[i].date : i \in 1 .. Len(daily_logs) } = OccupiedDates(timeline)
        /\ Len(daily_logs) = Cardinality(OccupiedDates(timeline))

\* C29: for every day-clipped slice slice_timeline produces and
\* map_segments_to_grid maps, startIndex <= endIndex, also for a slice
\* whose end was clipped to the end of its day (the next day's 00:00).
C29_StartIndexAtMostEndIndex ==
    pc = "mapped" =>
        \A i \in 1 .. Len(mapped_logs) :
            \A j \in 1 .. Len(mapped_logs[i].segments) :
                mapped_logs[i].segments[j].startIndex <= mapped_logs[i].segments[j].endIndex

\* Total duration of the segments of a daily log.
LogTime(log) == SliceTime(log, 1 .. Len(log.segments))

\* C30: for every timeline process_trip produces, within each daily log
\* the slices lie inside the log's day, from its 00:00 to the next 00:00,
\* are contiguous and do not overlap, so driving_hours <= on_duty_hours <=
\* 24; for every date strictly between the first and the last log, the
\* slice durations sum to exactly 24 hours.
C30_DailyLogsTileTheDay ==
    pc = "sliced" =>
        /\ \A i \in 1 .. Len(daily_logs) :
              LET log == daily_logs[i]
                  n == Len(log.segments)
              IN  /\ \A j \in 1 .. n :
                        /\ log.date * 24 * 60 <= log.segments[j].start_time
                        /\ log.segments[j].start_time < log.segments[j].end_time
                        /\ log.segments[j].end_time <= (log.date + 1) * 24 * 60
                  /\ \A j \in 1 .. n - 1 :
                        log.segments[j].end_time = log.segments[j + 1].start_time
                  /\ log.driving_hours <= log.on_duty_hours
                  /\ log.on_duty_hours <= 24 * 60
        /\ \A i \in 2 .. Len(daily_logs) - 1 : LogTime(daily_logs[i]) = 24 * 60

\* A sliced trip of four or more daily logs whose second log holds DRIVING
\* time and time off the clock and whose third log holds several slices.
C30_Witness ==
    /\ pc = "sliced"
    /\ Len(daily_logs) >= 4
    /\ daily_logs[2].driving_hours > 0
    /\ daily_logs[2].on_duty_hours < 24 * 60
    /\ Len(daily_logs[3].segments) >= 3
    /\ LogTime(daily_logs[3]) = 24 * 60

\* ---------------------------------------------------------------------
\* TripPlanView.post: properties
\* ---------------------------------------------------------------------

\* C25: for a request that passes validation and whose location parsing
\* and routing succeed, post runs process_trip, slice_timeline and
\* map_all_logs, persists the results, sets the trip's status to
\* 'completed' and answers 201.
C25_ValidRequestCompletes ==
    ( /\ pc = "responded"
      /\ request.valid
      /\ request.parsed
      /\ request.routed ) =>
        /\ trip_status = "completed"
        /\ response_status = 201

====
